---- MODULE Spec2Model ----
(***************************************************************************)
(* Model of the whimsy-thinking tool server (src/index.ts): the call-tool  *)
(* dispatcher, the four tool handlers and the session state they share.    *)
(*                                                                         *)
(* JavaScript values are tagged records, one tag per runtime type:         *)
(*   [undef |-> TRUE]   undefined (an absent key reads as this)            *)
(*   [num |-> n]        a number            [bool |-> b]   a boolean       *)
(*   [str |-> s]        a string            [arr |-> seq]  an array        *)
(*   [fn |-> name]      a function object inherited from Object.prototype  *)
(* An argument object is a function from the keys that are present to      *)
(* such values.  The text of `whimsy` is a sequence of characters, because *)
(* trim() looks at them; every other string is opaque.                     *)
(***************************************************************************)
EXTENDS Integers, Sequences, FiniteSets, TLC

VARIABLES
    whimsySettings,  \* WhimsyThinkingServer.whimsySettings
    whimsyHistory,   \* WhimsyThinkingServer.whimsyHistory
    branches,        \* WhimsyThinkingServer.branches (own properties only)
    strategiesFile,  \* oblique-strategies.txt as the file system holds it
    request,         \* the call-tool request handled last
    response         \* what the handler handed back to the transport

vars == <<whimsySettings, whimsyHistory, branches, strategiesFile, request, response>>

----------------------------------------------------------------------------
(* JavaScript values and the coercions the handlers rely on *)

Undefined == [undef |-> TRUE]
Num(n) == [num |-> n]
Str(s) == [str |-> s]
Bool(b) == [bool |-> b]
Arr(a) == [arr |-> a]
NaN == [nan |-> TRUE]

IsUndefined(x) == "undef" \in DOMAIN x
IsNum(x) == "num" \in DOMAIN x
IsStr(x) == "str" \in DOMAIN x
IsBool(x) == "bool" \in DOMAIN x
IsArr(x) == "arr" \in DOMAIN x

\* obj.key on an argument object
Get(obj, key) == IF key \in DOMAIN obj THEN obj[key] ELSE Undefined

\* ToBoolean: undefined, false, 0, NaN and "" are falsy
Truthy(x) ==
    CASE IsUndefined(x) -> FALSE
      [] IsBool(x) -> x.bool
      [] IsNum(x) -> x.num # 0
      [] IsStr(x) -> Len(x.str) > 0
      [] "nan" \in DOMAIN x -> FALSE
      [] OTHER -> TRUE

\* ToNumber, for the operand types the requests carry (a string of the
\* model's alphabet holds no digit: empty or blank converts to 0, else NaN)
ToNumber(x) ==
    CASE IsNum(x) -> x
      [] IsBool(x) -> Num(IF x.bool THEN 1 ELSE 0)
      [] IsStr(x) -> IF \A i \in 1..Len(x.str) : x.str[i] = " " THEN Num(0) ELSE NaN
      [] OTHER -> NaN

\* a < b and a > b on non-string operands: false as soon as one side is NaN
JsLt(a, b) ==
    LET x == ToNumber(a)
        y == ToNumber(b)
    IN  IsNum(x) /\ IsNum(y) /\ x.num < y.num

JsGt(a, b) == JsLt(b, a)

\* a === b
StrictEq(a, b) == DOMAIN a = DOMAIN b /\ a = b /\ "nan" \notin DOMAIN a

----------------------------------------------------------------------------
(* Response envelopes and handler outcomes *)

Lit(s) == [lit |-> s]

\* the mutant of Envelope: a success envelope that spells out isError: false
EnvelopeIsErrorFalse(text) ==
    [content |-> <<[type |-> "text", text |-> text]>>, isError |-> FALSE]

\* return { content: [{ type: "text", text }] }
Envelope(text) == [content |-> <<[type |-> "text", text |-> text]>>]

\* return { content: [{ type: "text", text }], isError: true }
ErrorEnvelope(text) == [content |-> <<[type |-> "text", text |-> text]>>, isError |-> TRUE]

Return(env) == [tag |-> "return", value |-> env]
Throw(msg) == [tag |-> "throw", message |-> msg]

----------------------------------------------------------------------------
(* set_whimsy_level *)

\* levelNames[level]: an index outside the array reads as undefined
LevelName(level) ==
    IF IsNum(level) /\ level.num \in 0..2
    THEN Str(<<"off", "subtle", "overt">>[level.num + 1])
    ELSE Undefined

\* the mutant of SetSettings: the style is assigned whether supplied or not
SetSettingsOverwritesStyle(settings, level, style) ==
    IF IsUndefined(style) THEN [level |-> level]
    ELSE [level |-> level, style |-> style]

\* this.whimsySettings.level = level; if (style) this.whimsySettings.style = style
SetSettings(settings, level, style) ==
    IF Truthy(style)
    THEN [k \in DOMAIN settings \cup {"style"} |->
             IF k = "level" THEN level ELSE IF k = "style" THEN style ELSE settings[k]]
    ELSE [settings EXCEPT !.level = level]

\* the confirmation text of setWhimsyLevel
LevelText(level, style) ==
    LET emoji == IF StrictEq(level, Num(0)) THEN Lit("emoji:mute")
                 ELSE IF StrictEq(level, Num(1)) THEN Lit("emoji:sparkles")
                 ELSE Lit("emoji:rainbow")
        head == <<emoji, Lit(" Whimsy level set to "), level, Lit(" ("),
                  LevelName(level), Lit(")")>>
        with == IF Truthy(style) THEN <<Lit(" with "), style, Lit(" style")>> ELSE <<>>
        tail == IF StrictEq(level, Num(0))
                THEN <<Lit("All responses will be purely functional and professional.")>>
                ELSE IF StrictEq(level, Num(1))
                THEN <<Lit("Responses will have gentle touches of delight and wonder.")>>
                ELSE <<Lit("Responses will be playfully delightful with overt whimsical touches!")>>
    IN  head \o with \o tail

\* the mutant of setWhimsyLevel: the text is built from the level in force
\* before the assignment
setWhimsyLevelReportsPrevious(settings, level, style) ==
    [settings |-> SetSettings(settings, level, style),
     outcome  |-> Return(Envelope(LevelText(settings.level, style)))]

\* setWhimsyLevel(level, style): the new settings and what the method returns
setWhimsyLevel(settings, level, style) ==
    [settings |-> SetSettings(settings, level, style),
     outcome  |-> Return(Envelope(LevelText(level, style)))]

----------------------------------------------------------------------------
(* get_whimsy_guidance *)

OffText == <<Lit("Whimsy is OFF. Provide purely functional, professional responses without embellishment.")>>

SubtleTemplate == <<Lit("Apply SUBTLE whimsy:"),
                    Lit("Use gentle, delightful language choices"),
                    Lit("Add occasional playful metaphors or analogies"),
                    Lit("Include subtle warmth and personality"),
                    Lit("Use cheerful but professional tone")>>

OvertTemplate == <<Lit("Apply OVERT whimsy:"),
                   Lit("Use playfully delightful language throughout"),
                   Lit("Include creative metaphors and surprising connections"),
                   Lit("Add joyful embellishments and colorful descriptions"),
                   Lit("Express wonder and curiosity openly")>>

ReducedNote == Lit("Reduced whimsy due to serious context - maintain professionalism while adding gentle touches.")

\* the mutant of EffectiveLevel: the level is never capped
EffectiveLevelUncapped(level, seriousness) == level

\* let effectiveLevel = level; if (seriousness === "high" && effectiveLevel > 1) effectiveLevel = 1
EffectiveLevel(level, seriousness) ==
    IF StrictEq(seriousness, Str("high")) /\ JsGt(level, Num(1)) THEN Num(1) ELSE level

\* this.whimsySettings.style || "gentle-humor"
ResolvedStyle(settings) ==
    IF Truthy(Get(settings, "style")) THEN settings.style ELSE Str("gentle-humor")

\* the mutant of IsOff: a style that is set keeps whimsy on
IsOffWithoutStyle(settings) ==
    StrictEq(settings.level, Num(0)) /\ ~Truthy(Get(settings, "style"))

\* this.whimsySettings.level === 0
IsOff(settings) == StrictEq(settings.level, Num(0))

\* getWhimsyGuidance(responseContext, seriousness)
getWhimsyGuidance(settings, responseContext, seriousness) ==
    IF IsOff(settings)
    THEN Return(Envelope(OffText))
    ELSE LET effectiveLevel == EffectiveLevel(settings.level, seriousness)
             template == IF StrictEq(effectiveLevel, Num(1)) THEN SubtleTemplate ELSE OvertTemplate
             reduced == IF StrictEq(seriousness, Str("high")) /\ JsGt(settings.level, effectiveLevel)
                        THEN <<ReducedNote>> ELSE <<>>
         IN  Return(Envelope(template
                              \o <<Lit("Style preference: "), ResolvedStyle(settings),
                                   Lit("Context: "), responseContext>>
                              \o reduced))

----------------------------------------------------------------------------
(* oblique_strategy *)

Whitespace == {" ", "\t", "\n", "\r"}

RECURSIVE TrimStart(_)
TrimStart(s) == IF s # <<>> /\ Head(s) \in Whitespace THEN TrimStart(Tail(s)) ELSE s

RECURSIVE TrimEnd(_)
TrimEnd(s) ==
    IF s # <<>> /\ s[Len(s)] \in Whitespace THEN TrimEnd(SubSeq(s, 1, Len(s) - 1)) ELSE s

\* the mutant of Trim: the content is measured without trimming it
NoTrim(s) == s

\* String.prototype.trim on a sequence of characters
Trim(s) == TrimEnd(TrimStart(s))

\* content.split('\n'): always at least one piece
RECURSIVE SplitLines(_)
SplitLines(s) ==
    IF \E i \in 1..Len(s) : s[i] = "\n"
    THEN LET i == CHOOSE j \in 1..Len(s) : s[j] = "\n" /\ \A k \in 1..(j - 1) : s[k] # "\n"
         IN  <<SubSeq(s, 1, i - 1)>> \o SplitLines(SubSeq(s, i + 1, Len(s)))
    ELSE <<s>>

\* the mutant of TrimmedNonEmpty: the lines trimmed, the empty ones kept
TrimmedKeepingEmpty(lines) == [i \in 1..Len(lines) |-> Trim(lines[i])]

\* .map(line => line.trim()).filter(line => line.length > 0)
RECURSIVE TrimmedNonEmpty(_)
TrimmedNonEmpty(lines) ==
    IF lines = <<>> THEN <<>>
    ELSE LET t == Trim(Head(lines))
         IN  (IF Len(t) > 0 THEN <<t>> ELSE <<>>) \o TrimmedNonEmpty(Tail(lines))

Strategies(content) == TrimmedNonEmpty(SplitLines(content))

\* the mutant of RandomIndex: Math.floor(Math.random()) * n, always 0
RandomIndexFloorsFirst(u, n) == 0

\* Math.floor(Math.random() * n), with Math.random() = u / RandomGrid in [0, 1)
RandomGrid == 4
RandomIndex(u, n) == (u * n) \div RandomGrid

StrategyText(line) ==
    <<Lit("**Oblique Strategy**"), Str(line), Lit("Credit: Brian Eno and Peter Schmidt"),
      Lit("Sometimes the most unexpected approach opens new pathways. How might this apply to your current situation?")>>

FileNotFoundText ==
    <<Lit("Oblique Strategies file not found. Please create 'oblique-strategies.txt' in the project root with one strategy per line."),
      Lit("Credit: Brian Eno and Peter Schmidt")>>

\* the mutant of IsNotFound: a catch block that rethrows every error
IsNotFoundNever(file) == FALSE

\* error instanceof Error && error.code === 'ENOENT'
IsNotFound(file) == file.err = "ENOENT"

\* the mutant of readFileSync: the file as it was when the server started
readFileSyncAtStartup(file) == [err |-> "ENOENT"]

\* readFileSync(strategiesPath, 'utf-8'), called anew by every call: what
\* the file system holds now
readFileSync(file) == file

\* getObliqueStrategy(): readFileSync either throws (err) or yields the content
getObliqueStrategy(file, u) ==
    IF "err" \in DOMAIN file
    THEN IF IsNotFound(file)
         THEN Return(Envelope(FileNotFoundText))
         ELSE Throw(file.err)
    ELSE LET strategies == Strategies(file.content)
         IN  IF Len(strategies) = 0
             THEN Throw("No strategies found in oblique-strategies.txt")
             ELSE Return(Envelope(StrategyText(strategies[RandomIndex(u, Len(strategies)) + 1])))

----------------------------------------------------------------------------
(* whimsical_thinking *)

\* validateWhimsyData(whimsyData): "ok", or the Error it throws.  Reading a
\* property of undefined, or calling trim on a non-string, is a TypeError.
validateWhimsyData(whimsyData) ==
    IF IsUndefined(whimsyData)
    THEN Throw("TypeError: Cannot read properties of undefined (reading 'whimsy')")
    ELSE LET whimsy == Get(whimsyData, "whimsy")
             whimsyNumber == Get(whimsyData, "whimsyNumber")
             totalWhimsies == Get(whimsyData, "totalWhimsies")
             needsMoreWhimsies == Get(whimsyData, "needsMoreWhimsies")
         IN  IF ~Truthy(whimsy)
             THEN Throw("A whimsy must contain some delightful content!")
             ELSE IF ~IsStr(whimsy)
             THEN Throw("TypeError: whimsyData.whimsy.trim is not a function")
             ELSE IF Len(Trim(whimsy.str)) = 0
             THEN Throw("A whimsy must contain some delightful content!")
             ELSE IF JsLt(whimsyNumber, Num(1))
             THEN Throw("Whimsy numbers start from 1, like the first smile of dawn!")
             ELSE IF JsLt(totalWhimsies, Num(1))
             THEN Throw("We need at least one whimsy to begin our delightful journey!")
             ELSE IF JsGt(whimsyNumber, totalWhimsies) /\ ~Truthy(needsMoreWhimsies)
             THEN Throw("Our whimsy number has wandered beyond our planned journey - perhaps we need more whimsies?")
             ELSE [tag |-> "ok"]

\* getWhimsicalPrefix(whimsyData)
getWhimsicalPrefix(whimsyData) ==
    IF Truthy(Get(whimsyData, "isRevision")) THEN Lit("Revisiting with fresh wonder")
    ELSE IF Truthy(Get(whimsyData, "branchId")) THEN Lit("Branching into new delights")
    ELSE Lit("Whimsical Exploration")

\* getDelightIndicator(delightLevel): "" when falsy, else min(delightLevel, 10)
\* stars; String.prototype.repeat throws a RangeError on a negative count
getDelightIndicator(delightLevel) ==
    IF ~Truthy(delightLevel) THEN [tag |-> "ok", value |-> Lit("")]
    ELSE LET n == ToNumber(delightLevel)
             count == IF IsNum(n) THEN (IF n.num < 10 THEN n.num ELSE 10) ELSE 0
         IN  IF count < 0
             THEN Throw("RangeError: Invalid count value")
             ELSE [tag |-> "ok", value |-> [stars |-> count]]

\* getToneEmoji(tone)
getToneEmoji(tone) ==
    IF Truthy(tone) /\ IsStr(tone) /\ tone.str \in {"playful", "wonder", "curiosity", "gentle-humor"}
    THEN Lit(tone.str)
    ELSE Lit("sparkles")

\* the numbered list of adjacentPaths.forEach((path, index) => ...)
NumberedPaths(paths) == [i \in 1..Len(paths) |-> [index |-> i, path |-> paths[i]]]

\* formatWhimsy(whimsyData): the rendered sections in order, or the error
\* thrown while rendering
formatWhimsy(whimsyData) ==
    LET delight == getDelightIndicator(Get(whimsyData, "delightLevel"))
        paths == Get(whimsyData, "adjacentPaths")
        optional(key, sec) ==
            IF Truthy(Get(whimsyData, key))
            THEN <<[sec |-> sec, text |-> whimsyData[key]]>> ELSE <<>>
    IN  IF delight.tag = "throw" THEN delight
        ELSE IF IsStr(paths) /\ Len(paths.str) > 0
        THEN Throw("TypeError: whimsyData.adjacentPaths.forEach is not a function")
        ELSE [tag |-> "ok", value |->
                 <<[sec |-> "header", prefix |-> getWhimsicalPrefix(whimsyData),
                    tone |-> getToneEmoji(Get(whimsyData, "tonalShift"))],
                   [sec |-> "progress", number |-> Get(whimsyData, "whimsyNumber"),
                    total |-> Get(whimsyData, "totalWhimsies"), delight |-> delight.value],
                   [sec |-> "content", text |-> whimsyData.whimsy]>>
                 \o optional("unexpectedInsight", "insight")
                 \o (IF IsArr(paths) /\ Len(paths.arr) > 0
                     THEN <<[sec |-> "paths", items |-> NumberedPaths(paths.arr)]>> ELSE <<>>)
                 \o optional("emotionalResonance", "feeling")
                 \o optional("sparkDirection", "spark")
                 \o optional("connectionStyle", "connection")
                 \o <<[sec |-> "footer",
                       text |-> IF Truthy(Get(whimsyData, "nextWhimsyNeeded"))
                                THEN Lit("Ready for the next whimsical exploration!")
                                ELSE Lit("Our delightful journey feels complete... for now!")]>>]

\* The property names every plain object inherits from Object.prototype:
\* this.branches[id] finds them although the object was created empty.
ObjectPrototypeKeys ==
    {"constructor", "toString", "valueOf", "hasOwnProperty", "isPrototypeOf",
     "propertyIsEnumerable", "toLocaleString", "__proto__"}

\* the mutant of BranchLookup: an existing branch is not found again
BranchLookupMisses(br, id) ==
    IF id \in ObjectPrototypeKeys THEN [fn |-> id] ELSE Undefined

\* this.branches[id]: an own property, an inherited one, or undefined
BranchLookup(br, id) ==
    IF id \in DOMAIN br THEN Arr(br[id])
    ELSE IF id \in ObjectPrototypeKeys THEN [fn |-> id]
    ELSE Undefined

\* ToIntegerOrInfinity, then the clamping of Array.prototype.slice(0, end)
SliceEnd(len, end) ==
    IF end < 0 THEN (IF len + end > 0 THEN len + end ELSE 0)
    ELSE (IF end < len THEN end ELSE len)

\* history.slice(0, end)
Slice0(history, end) == SubSeq(history, 1, SliceEnd(Len(history), end))

\* the mutant of IsBranchRecord: the two keys are tested for presence only
IsBranchRecordByPresence(whimsyData) ==
    "branchId" \in DOMAIN whimsyData /\ "branchFromWhimsy" \in DOMAIN whimsyData

\* the branch test of processWhimsy: whimsyData.branchId && whimsyData.branchFromWhimsy
IsBranchRecord(whimsyData) ==
    Truthy(Get(whimsyData, "branchId")) /\ Truthy(Get(whimsyData, "branchFromWhimsy"))

\* the mutant of PlaceWhimsy: a branch seeded with the history array itself
\* instead of a copy, so that a push on a new branch lands in history too
PlaceWhimsyAliased(history, br, whimsyData) ==
    IF IsBranchRecord(whimsyData)
    THEN LET id == whimsyData.branchId.str
             found == BranchLookup(br, id)
         IN  IF IsArr(found)
             THEN [tag |-> "ok", history |-> history,
                   branches |-> [br EXCEPT ![id] = Append(br[id], whimsyData)]]
             ELSE IF Truthy(found)
             THEN [tag |-> "throw", message |-> "TypeError: this.branches[whimsyData.branchId].push is not a function"]
             ELSE [tag |-> "ok", history |-> Append(history, whimsyData),
                   branches |-> [k \in DOMAIN br \cup {id} |->
                                    IF k = id THEN Append(history, whimsyData) ELSE br[k]]]
    ELSE [tag |-> "ok", history |-> Append(history, whimsyData), branches |-> br]

\* the placement step of processWhimsy: the new history and branches, or the
\* TypeError of calling push on an inherited property (nothing is stored then)
PlaceWhimsy(history, br, whimsyData) ==
    IF IsBranchRecord(whimsyData)
    THEN LET id == whimsyData.branchId.str
             found == BranchLookup(br, id)
             seeded == IF Truthy(found) THEN found
                       ELSE Arr(Slice0(history, whimsyData.branchFromWhimsy.num))
         IN  IF IsArr(seeded)
             THEN [tag |-> "ok", history |-> history,
                   branches |-> [k \in DOMAIN br \cup {id} |->
                                    IF k = id THEN Append(seeded.arr, whimsyData) ELSE br[k]]]
             ELSE [tag |-> "throw", history |-> history, branches |-> br,
                   message |-> "TypeError: this.branches[whimsyData.branchId].push is not a function"]
    ELSE [tag |-> "ok", history |-> Append(history, whimsyData), branches |-> br]

\* the mutant of processWhimsy: the record is placed before it is validated
processWhimsyPlacesFirst(history, br, whimsyData) ==
    LET valid == validateWhimsyData(whimsyData)
    IN  IF IsUndefined(whimsyData)
        THEN [history |-> history, branches |-> br, outcome |-> valid]
        ELSE LET placed == PlaceWhimsy(history, br, whimsyData)
             IN  IF placed.tag = "throw"
                 THEN [history |-> history, branches |-> br, outcome |-> Throw(placed.message)]
                 ELSE IF valid.tag = "throw"
                 THEN [history |-> placed.history, branches |-> placed.branches, outcome |-> valid]
                 ELSE LET text == formatWhimsy(whimsyData)
                      IN  [history |-> placed.history, branches |-> placed.branches,
                           outcome |-> IF text.tag = "throw" THEN text
                                       ELSE Return(Envelope(text.value))]

\* processWhimsy(whimsyData): validate, place, render
processWhimsy(history, br, whimsyData) ==
    LET valid == validateWhimsyData(whimsyData)
    IN  IF valid.tag = "throw"
        THEN [history |-> history, branches |-> br, outcome |-> valid]
        ELSE LET placed == PlaceWhimsy(history, br, whimsyData)
             IN  IF placed.tag = "throw"
                 THEN [history |-> history, branches |-> br, outcome |-> Throw(placed.message)]
                 ELSE LET text == formatWhimsy(whimsyData)
                      IN  [history |-> placed.history, branches |-> placed.branches,
                           outcome |-> IF text.tag = "throw" THEN text
                                       ELSE Return(Envelope(text.value))]

----------------------------------------------------------------------------
(* The request handlers registered by setupToolHandlers *)

\* the inputSchema constraints advertised by the ListTools handler
ToolList ==
    <<[name |-> "set_whimsy_level", required |-> {"level"},
       enum |-> [level |-> {Num(0), Num(1), Num(2)},
                 style |-> {Str("playful"), Str("wonder"), Str("curiosity"), Str("gentle-humor")}]],
      [name |-> "get_whimsy_guidance", required |-> {"responseContext"},
       enum |-> [seriousness |-> {Str("low"), Str("medium"), Str("high")}]],
      [name |-> "oblique_strategy", required |-> {}],
      [name |-> "whimsical_thinking",
       required |-> {"whimsy", "nextWhimsyNeeded", "whimsyNumber", "totalWhimsies"},
       minimum |-> [whimsyNumber |-> 1, totalWhimsies |-> 1, delightLevel |-> 1,
                    revisesWhimsy |-> 1, branchFromWhimsy |-> 1],
       maximum |-> [delightLevel |-> 10],
       enum |-> [tonalShift |-> {Str("playful"), Str("wonder"), Str("curiosity"), Str("gentle-humor")},
                 connectionStyle |-> {Str("metaphorical"), Str("serendipitous"),
                                      Str("childlike"), Str("poetic")}]]>>

\* a fault handed to the transport: an exception leaving the request handler
Fault(msg) == [fault |-> msg]

\* the mutant of TryCatch: a handler whose exception is not caught
TryCatchRethrows(outcome, prefix) ==
    IF outcome.tag = "throw" THEN Fault(outcome.message) ELSE outcome.value

\* try { return await handler } catch (error) { return { ..., isError: true } }
TryCatch(outcome, prefix) ==
    IF outcome.tag = "throw"
    THEN ErrorEnvelope(<<Lit(prefix), Lit(outcome.message)>>)
    ELSE outcome.value

\* request.params.arguments, undefined when the request carries none
Arguments(req) == Get(req, "arguments")

\* const { a, b } = request.params.arguments throws on undefined
DestructureFails(req) == IsUndefined(Arguments(req))

DestructureError == Throw("TypeError: Cannot destructure property of 'request.params.arguments' as it is undefined.")

KnownTools == {"set_whimsy_level", "get_whimsy_guidance", "oblique_strategy", "whimsical_thinking"}

\* the mutant of ToolOutcome: get_whimsy_guidance stores the level it
\* reduced for a serious context
ToolOutcomeGuidanceStoresLevel(req, settings, history, br, file, u) ==
    LET same(outcome) == [settings |-> settings, history |-> history, branches |-> br,
                          outcome |-> outcome]
    IN  IF req.name = "set_whimsy_level"
        THEN IF DestructureFails(req) THEN same(DestructureError)
             ELSE setWhimsyLevel(settings, Get(req.arguments, "level"),
                                 Get(req.arguments, "style"))
                  @@ [history |-> history, branches |-> br]
        ELSE IF req.name = "get_whimsy_guidance"
        THEN IF DestructureFails(req) THEN same(DestructureError)
             ELSE [settings |-> [settings EXCEPT !.level =
                                     EffectiveLevel(settings.level,
                                                    Get(req.arguments, "seriousness"))],
                   history |-> history, branches |-> br,
                   outcome |-> getWhimsyGuidance(settings, Get(req.arguments, "responseContext"),
                                                 Get(req.arguments, "seriousness"))]
        ELSE IF req.name = "oblique_strategy"
        THEN same(getObliqueStrategy(readFileSync(file), u))
        ELSE processWhimsy(history, br, Arguments(req)) @@ [settings |-> settings]

\* What the body of a tool's try block does: the session it leaves and how it
\* ends (a returned envelope or a thrown error).  u is the draw of Math.random().
ToolOutcome(req, settings, history, br, file, u) ==
    LET same(outcome) == [settings |-> settings, history |-> history, branches |-> br,
                          outcome |-> outcome]
    IN  IF req.name = "set_whimsy_level"
        THEN IF DestructureFails(req) THEN same(DestructureError)
             ELSE setWhimsyLevel(settings, Get(req.arguments, "level"),
                                 Get(req.arguments, "style"))
                  @@ [history |-> history, branches |-> br]
        ELSE IF req.name = "get_whimsy_guidance"
        THEN same(IF DestructureFails(req) THEN DestructureError
                  ELSE getWhimsyGuidance(settings, Get(req.arguments, "responseContext"),
                                         Get(req.arguments, "seriousness")))
        ELSE IF req.name = "oblique_strategy"
        THEN same(getObliqueStrategy(readFileSync(file), u))
        ELSE processWhimsy(history, br, Arguments(req)) @@ [settings |-> settings]

\* the text each tool's catch block puts before error.message
CatchPrefix(name) ==
    CASE name = "set_whimsy_level" -> "Oops! Something went awry while adjusting whimsy: "
      [] name = "get_whimsy_guidance" -> "Hmm, couldn't generate whimsy guidance: "
      [] name = "oblique_strategy" -> "Couldn't retrieve an Oblique Strategy: "
      [] name = "whimsical_thinking" -> "Oh dear! Our whimsical journey hit a small snag: "

\* the mutant of UnknownToolEnvelope: the message does not say which name
UnknownToolEnvelopeUnnamed(name) == ErrorEnvelope(<<Lit("Unknown tool")>>)

\* the fall-through return: `Unknown tool: ${request.params.name}`, isError: true
UnknownToolEnvelope(name) == ErrorEnvelope(<<Lit("Unknown tool: "), Lit(name)>>)

\* the session a try block left, and what the handler returns for its outcome
Handled(r, prefix) ==
    [settings |-> r.settings, history |-> r.history, branches |-> r.branches,
     response |-> TryCatch(r.outcome, prefix)]

\* The CallTool handler: the session after the call and the value returned.
CallTool(req, settings, history, br, file, u) ==
    IF req.name \in KnownTools
    THEN Handled(ToolOutcome(req, settings, history, br, file, u), CatchPrefix(req.name))
    ELSE [settings |-> settings, history |-> history, branches |-> br,
          response |-> UnknownToolEnvelope(req.name)]

----------------------------------------------------------------------------
(* The requests the model sends *)

\* obj with key set to val
With(obj, key, val) == [k \in DOMAIN obj \cup {key} |-> IF k = key THEN val ELSE obj[k]]

\* obj without key
Without(obj, key) == [k \in DOMAIN obj \ {key} |-> obj[k]]

\* the four required fields of a thought, content `text`
Thought(text, n, t) ==
    [whimsy |-> Str(text), nextWhimsyNeeded |-> Bool(TRUE),
     whimsyNumber |-> Num(n), totalWhimsies |-> Num(t)]

Branching(obj, id, from) == With(With(obj, "branchId", Str(id)), "branchFromWhimsy", Num(from))

\* thoughts that pass validateWhimsyData and go to the main line
MainLineThoughts ==
    { Thought(<<"a">>, 1, 1),
      Branching(Thought(<<"a">>, 1, 1), "", 2),
      With(Thought(<<"a">>, 1, 2), "branchId", Str("x")),
      Branching(Thought(<<"a">>, 2, 2), "y", 0) }

\* thoughts that pass validateWhimsyData and name a branch and an origin
BranchThoughts ==
    { Branching(Thought(<<"a">>, 1, 1), "x", 1),
      Branching(With(Thought(<<" ", "a">>, 2, 1), "needsMoreWhimsies", Bool(TRUE)), "x", -1),
      Branching(Thought(<<"a">>, 1, 1), "y", 2),
      Branching(Thought(<<"a">>, 1, 1), "constructor", 2),
      Branching(With(Thought(<<"a">>, 2, 1), "needsMoreWhimsies", Bool(TRUE)), "toString", 1) }

\* values of `whimsy` that validateWhimsyData refuses
BadWhimsy == {Undefined, Str(<<>>), Str(<<" ">>), Str(<<"\n", " ">>), Num(0), Num(5)}

\* argument objects validateWhimsyData refuses
RejectedThoughts ==
    { IF IsUndefined(w) THEN [k \in DOMAIN o \ {"whimsy"} |-> o[k]] ELSE With(o, "whimsy", w) :
        w \in BadWhimsy,
        o \in { Thought(<<"a">>, 1, 1), Branching(Thought(<<"a">>, 2, 1), "x", 1) } }
    \cup { Thought(<<" ">>, 0, 0),
           With(Thought(<<" ">>, 2, 1), "needsMoreWhimsies", Bool(TRUE)),
           Thought(<<"a">>, 0, 1), Thought(<<"a">>, 1, 0), Thought(<<"a">>, 0, -1),
           Thought(<<" ", "a", " ">>, 2, 1),
           With(Thought(<<"a">>, 2, 1), "needsMoreWhimsies", Bool(FALSE)),
           Branching(Thought(<<"a">>, 2, 1), "y", 2) }

CallRequest(name, args) == [method |-> "tools/call", name |-> name, arguments |-> args]
CallRequestNoArguments(name) == [method |-> "tools/call", name |-> name]

ThinkingRequests ==
    { CallRequest("whimsical_thinking", a) :
        a \in MainLineThoughts \cup BranchThoughts \cup RejectedThoughts }
    \cup { CallRequestNoArguments("whimsical_thinking") }

\* set_whimsy_level payloads: every level and style, in and out of the schema
LevelValues == {Undefined, Num(0), Num(1), Num(2), Num(3)}
StyleValues == {Undefined, Str("playful"), Str("wonder"), Str("")}

SetLevelRequests ==
    { CallRequest("set_whimsy_level",
                  [k \in {x \in {"level"} : ~IsUndefined(l)} \cup {x \in {"style"} : ~IsUndefined(st)}
                     |-> IF k = "level" THEN l ELSE st]) :
        l \in LevelValues, st \in StyleValues }
    \cup { CallRequestNoArguments("set_whimsy_level") }

GuidanceRequests ==
    { CallRequest("get_whimsy_guidance",
                  [k \in {"responseContext"} \cup {x \in {"seriousness"} : ~IsUndefined(se)}
                     |-> IF k = "responseContext" THEN Str("x") ELSE se]) :
        se \in {Undefined, Str("low"), Str("medium"), Str("high")} }
    \cup { CallRequest("get_whimsy_guidance", [seriousness |-> Str("high")]),
           CallRequestNoArguments("get_whimsy_guidance") }

ObliqueRequests ==
    { CallRequest("oblique_strategy", <<>>), CallRequestNoArguments("oblique_strategy") }

UnknownRequests ==
    { CallRequest("nope", <<>>), CallRequestNoArguments("toString"),
      CallRequest("Whimsical_Thinking", Thought(<<"a">>, 1, 1)) }

\* what the call of readFileSync on oblique-strategies.txt can meet
SessionFiles ==
    { [err |-> "ENOENT"], [err |-> "EACCES"],
      [content |-> <<" ", "\n">>],
      [content |-> <<"a", "\n", " ", "b", "\r", "\n">>] }

\* the files of the picker's own specification: every text of at most
\* MaxFileLen characters, and one of three lines with a CRLF ending
FileChars == {"a", "b", " ", "\n"}

MaxFileLen == 2

ThreeLines == <<"b", "\n", " ", "a", "\r", "\n", "c">>

ObliqueFiles ==
    SessionFiles
    \cup { [content |-> s] : s \in UNION { [1..n -> FileChars] : n \in 0..MaxFileLen } }
    \cup { [content |-> ThreeLines] }

\* the thinking calls of the whole-session specification
SessionThinkingRequests ==
    { CallRequest("whimsical_thinking", a) :
        a \in { Thought(<<"a">>, 1, 1),
                With(Thought(<<" ", "a">>, 2, 1), "needsMoreWhimsies", Bool(TRUE)),
                With(Thought(<<"a">>, 1, 1), "delightLevel", Num(-1)),
                Without(Thought(<<"a">>, 1, 1), "whimsyNumber"),
                Branching(Thought(<<"a">>, 1, 1), "x", 1),
                Branching(Thought(<<"a">>, 1, 1), "constructor", 1),
                Branching(Thought(<<"a">>, 2, 1), "y", 2),
                Thought(<<" ">>, 1, 1), Thought(<<"a">>, 2, 1), Thought(<<"a">>, 0, 1),
                With(Thought(<<"a">>, 1, 1), "whimsy", Num(5)) } }
    \cup { CallRequestNoArguments("whimsical_thinking") }

\* obj with key set to val, or obj itself when val is undefined (key absent)
WithOptional(obj, key, val) == IF IsUndefined(val) THEN obj ELSE With(obj, key, val)

\* the optional fields formatWhimsy renders: absent, empty and filled
InsightValues == {Undefined, Str(<<>>), Str(<<"i">>)}
PathsValues == {Undefined, Arr(<<>>), Arr(<<Str(<<"p">>), Str(<<"q">>)>>), Str(<<"p">>)}
FeelingValues == {Undefined, Str(<<"f">>)}
DelightValues == {Undefined, Num(3), Num(-1)}

\* thoughts that pass validateWhimsyData, with every combination of them
RenderThoughts ==
    { WithOptional(WithOptional(WithOptional(WithOptional(
          With(Thought(<<"a">>, 1, 1), "nextWhimsyNeeded", Bool(next)),
          "unexpectedInsight", insight), "adjacentPaths", paths),
          "emotionalResonance", feeling), "delightLevel", delight) :
        insight \in InsightValues, paths \in PathsValues, feeling \in FeelingValues,
        delight \in DelightValues, next \in BOOLEAN }
    \cup { With(With(With(Thought(<<"a">>, 1, 1), "unexpectedInsight", Str(<<"i">>)),
                     "sparkDirection", Str(<<"s">>)), "connectionStyle", Str("poetic")),
           With(With(Thought(<<"a">>, 1, 1), "emotionalResonance", Str(<<"f">>)),
                "tonalShift", Str("wonder")),
           With(With(Thought(<<"a">>, 1, 1), "isRevision", Bool(TRUE)), "delightLevel", Num(11)) }

RenderRequests == { CallRequest("whimsical_thinking", a) : a \in RenderThoughts }

----------------------------------------------------------------------------
(* The state machine: the transport delivers one request at a time, the   *)
(* handler runs to completion, the transport sends what it returned.      *)

\* bounds on the growth of history and of each branch
RenderMaxHistory == 1
MaxHistory == 2
MaxBranchLen == 3
SessionMaxHistory == 2
SessionMaxBranchLen == 2

NoRequest == [method |-> "none"]
NoResponse == [none |-> TRUE]

\* the state after `new WhimsyThinkingServer()`
Init ==
    /\ whimsySettings = [level |-> Num(1)]
    /\ whimsyHistory = <<>>
    /\ branches = <<>>
    /\ strategiesFile = [err |-> "ENOENT"]
    /\ request = NoRequest
    /\ response = NoResponse

Idle == request = NoRequest
Pending == request # NoRequest /\ response = NoResponse
Replied == response # NoResponse

\* the session r has history and every branch within the bounds
Fits(r, maxHistory, maxBranchLen) ==
    /\ Len(r.history) <= maxHistory
    /\ \A id \in DOMAIN r.branches : Len(r.branches[id]) <= maxBranchLen

\* handling req keeps history and every branch within the bounds
WithinBounds(req, maxHistory, maxBranchLen) ==
    IF req.method # "tools/call" THEN TRUE
    ELSE Fits(CallTool(req, whimsySettings, whimsyHistory, branches, strategiesFile, 0),
              maxHistory, maxBranchLen)

\* the transport decodes a request and hands it to its handler
Deliver(requests, maxHistory, maxBranchLen) ==
    /\ Idle
    /\ \E req \in requests :
          /\ WithinBounds(req, maxHistory, maxBranchLen)
          /\ request' = req
    /\ UNCHANGED <<whimsySettings, whimsyHistory, branches, strategiesFile, response>>

\* the handler ends: r is the session it leaves and the value it returns
HandlerReturns(r) ==
    /\ whimsySettings' = r.settings
    /\ whimsyHistory' = r.history
    /\ branches' = r.branches
    /\ response' = r.response
    /\ UNCHANGED <<strategiesFile, request>>

\* the CallTool handler on the pending request, u the draw of Math.random()
HandleCall(u) ==
    HandlerReturns(CallTool(request, whimsySettings, whimsyHistory, branches, strategiesFile, u))

PendingCall(name) == Pending /\ request.method = "tools/call" /\ request.name = name

SetWhimsyLevel == PendingCall("set_whimsy_level") /\ HandleCall(0)

GetWhimsyGuidance == PendingCall("get_whimsy_guidance") /\ HandleCall(0)

ObliqueStrategy == PendingCall("oblique_strategy") /\ \E u \in 0..(RandomGrid - 1) : HandleCall(u)

WhimsicalThinking == PendingCall("whimsical_thinking") /\ HandleCall(0)

UnknownTool ==
    /\ Pending /\ request.method = "tools/call" /\ request.name \notin KnownTools
    /\ HandleCall(0)

\* the ListTools handler: returns the tool descriptions, touches nothing
ListTools ==
    /\ Pending /\ request.method = "tools/list"
    /\ response' = [tools |-> ToolList]
    /\ UNCHANGED <<whimsySettings, whimsyHistory, branches, strategiesFile, request>>

\* the transport sends the response; the server waits for the next request
Send ==
    /\ Replied
    /\ request' = NoRequest
    /\ response' = NoResponse
    /\ UNCHANGED <<whimsySettings, whimsyHistory, branches, strategiesFile>>

\* the environment creates, rewrites or removes oblique-strategies.txt
\* (between two calls: a call is handled to completion)
StrategiesFileChanges ==
    /\ Idle
    /\ strategiesFile' \in SessionFiles \ {strategiesFile}
    /\ UNCHANGED <<whimsySettings, whimsyHistory, branches, request, response>>

SessionRequests ==
    SetLevelRequests \cup GuidanceRequests \cup ObliqueRequests \cup UnknownRequests
    \cup SessionThinkingRequests \cup {[method |-> "tools/list"]}

DeliverAny == Deliver(SessionRequests, SessionMaxHistory, SessionMaxBranchLen)

Next ==
    \/ DeliverAny
    \/ SetWhimsyLevel
    \/ GetWhimsyGuidance
    \/ ObliqueStrategy
    \/ WhimsicalThinking
    \/ UnknownTool
    \/ ListTools
    \/ Send
    \/ StrategiesFileChanges

Spec == Init /\ [][Next]_vars

\* the thinking tool alone, with every thought of ThinkingRequests
DeliverThought == Deliver(ThinkingRequests, MaxHistory, MaxBranchLen)

NextThinking ==
    \/ DeliverThought
    \/ WhimsicalThinking
    \/ Send

SpecThinking == Init /\ [][NextThinking]_vars

\* the strategy picker alone: the file changes between calls, each draw of
\* Math.random() keeps coming up (fair sampling)
DeliverOblique == Deliver(ObliqueRequests, SessionMaxHistory, SessionMaxBranchLen)

ObliqueFileChanges ==
    /\ Idle
    /\ strategiesFile' \in ObliqueFiles \ {strategiesFile}
    /\ UNCHANGED <<whimsySettings, whimsyHistory, branches, request, response>>

NextOblique ==
    \/ DeliverOblique
    \/ ObliqueStrategy
    \/ Send
    \/ ObliqueFileChanges

FairDraws ==
    \A u \in 0..(RandomGrid - 1) :
        SF_vars(PendingCall("oblique_strategy") /\ HandleCall(u))

SpecOblique == Init /\ [][NextOblique]_vars /\ FairDraws

\* the thinking tool on thoughts that exercise every section of the rendering
DeliverRendering == Deliver(RenderRequests, RenderMaxHistory, RenderMaxHistory)

NextRendering ==
    \/ DeliverRendering
    \/ WhimsicalThinking
    \/ Send

SpecRendering == Init /\ [][NextRendering]_vars

----------------------------------------------------------------------------
(* Vocabulary of the properties *)

\* a call-tool request has been handled and its reply not yet sent
CallReplied == Replied /\ request.method = "tools/call"
ToolReplied(name) == CallReplied /\ request.name = name

\* the step in which a handler runs
HandlerStep == Pending /\ response' # NoResponse
ToolStep(name) == HandlerStep /\ request.method = "tools/call" /\ request.name = name

\* env is { content: [{ type: "text", text }], ... } with a single text item
HasTextContent(env) ==
    /\ "content" \in DOMAIN env
    /\ Len(env.content) = 1
    /\ DOMAIN env.content[1] = {"type", "text"}
    /\ env.content[1].type = "text"

IsErrorTrue(env) == "isError" \in DOMAIN env /\ env.isError = TRUE
IsErrorFalse(env) == "isError" \in DOMAIN env /\ env.isError = FALSE
IsErrorAbsent(env) == "isError" \notin DOMAIN env

\* the text of the first content item
TextOf(env) == env.content[1].text

----------------------------------------------------------------------------
(* C1: whatever the tool name and the argument payload (absent, wrongly     *)
(* typed, fields missing), and in every reachable session state, the        *)
(* call-tool handler can run and hands the transport a response envelope;   *)
(* no failure escapes it.                                                   *)
C1_DispatcherNeverFaults ==
    /\ (Pending /\ request.method = "tools/call") =>
           \A u \in 0..(RandomGrid - 1) :
               LET r == CallTool(request, whimsySettings, whimsyHistory, branches,
                                 strategiesFile, u)
               IN  "fault" \notin DOMAIN r.response /\ HasTextContent(r.response)
    /\ CallReplied => "fault" \notin DOMAIN response /\ HasTextContent(response)

\* a thinking call without any payload was answered with an error envelope
C1_Witness ==
    /\ ToolReplied("whimsical_thinking")
    /\ "arguments" \notin DOMAIN request
    /\ whimsyHistory # <<>>
    /\ HasTextContent(response) /\ IsErrorTrue(response)

(* C2 as stated: every envelope carries a boolean isError, false on success *)
(* and true on failure.                                                     *)
C2_IsErrorAlwaysBoolean ==
    CallReplied =>
        /\ HasTextContent(response)
        /\ IsErrorTrue(response) \/ IsErrorFalse(response)

(* C2 as amended: every envelope is a list of one text item plus at most an *)
(* isError field; isError is true exactly when the tool is unknown or its   *)
(* handler threw, and the field is absent (not false) on success.           *)
C2_EnvelopeShape ==
    [][HandlerStep /\ request.method = "tools/call" =>
          /\ HasTextContent(response')
          /\ DOMAIN response' \subseteq {"content", "isError"}
          /\ IF \/ request.name \notin KnownTools
                \/ \A u \in 0..(RandomGrid - 1) :
                      ToolOutcome(request, whimsySettings, whimsyHistory, branches,
                                  strategiesFile, u).outcome.tag = "throw"
             THEN IsErrorTrue(response')
             ELSE IsErrorAbsent(response')]_vars

\* a successful set_whimsy_level reply, carrying no isError field
C2_Witness ==
    /\ ToolReplied("set_whimsy_level")
    /\ "arguments" \in DOMAIN request
    /\ HasTextContent(response) /\ IsErrorAbsent(response)

----------------------------------------------------------------------------
(* Vocabulary of the thinking properties *)

Last(seq) == seq[Len(seq)]

\* the argument object of the request at hand
Args == request.arguments

ThinkingReplied == ToolReplied("whimsical_thinking") /\ "arguments" \in DOMAIN request

\* the thinking handler runs on a payload and does not answer with an error
ThinkingAccepted ==
    /\ ToolStep("whimsical_thinking")
    /\ "arguments" \in DOMAIN request
    /\ ~IsErrorTrue(response')

\* content that is a string with at least one non-whitespace character
NonBlank(a) ==
    /\ "whimsy" \in DOMAIN a /\ IsStr(a.whimsy)
    /\ \E i \in 1..Len(a.whimsy.str) : a.whimsy.str[i] \notin Whitespace

\* content absent, empty or made of whitespace only
BlankContent(a) ==
    \/ "whimsy" \notin DOMAIN a
    \/ IsStr(a.whimsy) /\ \A i \in 1..Len(a.whimsy.str) : a.whimsy.str[i] \in Whitespace

HasNumbers(a) ==
    /\ "whimsyNumber" \in DOMAIN a /\ IsNum(a.whimsyNumber)
    /\ "totalWhimsies" \in DOMAIN a /\ IsNum(a.totalWhimsies)

\* the required fields as section 3 of the specification wants them
RequiredValid(a) ==
    NonBlank(a) /\ HasNumbers(a) /\ a.whimsyNumber.num >= 1 /\ a.totalWhimsies.num >= 1

Exceeds(a) == HasNumbers(a) /\ a.whimsyNumber.num > a.totalWhimsies.num

AllowsExceeding(a) ==
    "needsMoreWhimsies" \in DOMAIN a /\ a.needsMoreWhimsies = Bool(TRUE)

\* the record is the newest entry of history or of a branch
Stored(a) ==
    \/ whimsyHistory # <<>> /\ Last(whimsyHistory) = a
    \/ \E id \in DOMAIN branches : Last(branches[id]) = a

\* both branch keys are present in the payload
HasBothBranchKeys(a) == "branchId" \in DOMAIN a /\ "branchFromWhimsy" \in DOMAIN a

\* both are present, the id is not the empty string and the origin is not 0
NamesBranch(a) ==
    HasBothBranchKeys(a) /\ a.branchId.str # "" /\ a.branchFromWhimsy.num # 0

AppendedToHistory(a) ==
    whimsyHistory' = Append(whimsyHistory, a) /\ branches' = branches

AppendedToBranch(a, id) ==
    /\ id \in DOMAIN branches'
    /\ Last(branches'[id]) = a
    /\ id \in DOMAIN branches => Len(branches'[id]) = Len(branches[id]) + 1
    /\ whimsyHistory' = whimsyHistory
    /\ \A other \in DOMAIN branches' \ {id} :
           other \in DOMAIN branches /\ branches'[other] = branches[other]

OverflowText ==
    <<Lit("Oh dear! Our whimsical journey hit a small snag: "),
      Lit("Our whimsy number has wandered beyond our planned journey - perhaps we need more whimsies?")>>

----------------------------------------------------------------------------
(* C3: a thinking call with non-blank content, whimsyNumber >= 1,           *)
(* totalWhimsies >= 1 and whimsyNumber <= totalWhimsies succeeds whatever   *)
(* its optional fields hold: no error is flagged and the record is stored.  *)
C3_ValidThoughtSucceeds ==
    (ThinkingReplied /\ RequiredValid(Args) /\ ~Exceeds(Args)) =>
        ~IsErrorTrue(response) /\ Stored(Args)

(* C4: a thinking call with whimsyNumber > totalWhimsies, its other         *)
(* required fields valid, is answered with isError: true and the            *)
(* sequence-overflow message when needsMoreWhimsies is unset or false, and  *)
(* succeeds when needsMoreWhimsies is true.                                 *)
C4_OverflowRule ==
    (ThinkingReplied /\ Exceeds(Args) /\ RequiredValid(Args)) =>
        IF AllowsExceeding(Args)
        THEN ~IsErrorTrue(response)
        ELSE IsErrorTrue(response) /\ TextOf(response) = OverflowText

(* C5: a thinking call whose content is absent, empty or whitespace-only is *)
(* answered with isError: true, whatever the other fields hold.             *)
C5_BlankContentIsError ==
    (ToolReplied("whimsical_thinking")
       /\ ("arguments" \in DOMAIN request => BlankContent(Args))) =>
        IsErrorTrue(response)

\* whitespace-only content on a record that names a branch and breaks the
\* sequence rule as well
C5_Witness ==
    /\ ThinkingReplied
    /\ "whimsy" \in DOMAIN Args /\ Args.whimsy = Str(<<"\n", " ">>)
    /\ Exceeds(Args) /\ HasBothBranchKeys(Args)
    /\ IsErrorTrue(response)
    /\ whimsyHistory # <<>>

(* C6 as stated: an accepted record in which branchId and branchFromWhimsy  *)
(* are both set is appended to its branch and history is left alone; an     *)
(* accepted record lacking either is appended to history and no branch      *)
(* changes.                                                                 *)
C6_PlacementByPresence ==
    [][ThinkingAccepted =>
          IF HasBothBranchKeys(Args)
          THEN AppendedToBranch(Args, Args.branchId.str)
          ELSE AppendedToHistory(Args)]_vars

(* C6 as amended: the record goes to its branch when both are set, the id   *)
(* is not empty and the origin is not 0; otherwise it goes to history.      *)
(* Either way it lands in exactly one sequence.                             *)
C6_PlacementRule ==
    [][ThinkingAccepted =>
          IF NamesBranch(Args)
          THEN AppendedToBranch(Args, Args.branchId.str)
          ELSE AppendedToHistory(Args)]_vars

\* a record with an empty branchId and an origin went to history, while
\* a branch exists
C6_Witness ==
    /\ ThinkingReplied /\ ~IsErrorTrue(response)
    /\ HasBothBranchKeys(Args) /\ Args.branchId = Str("")
    /\ Last(whimsyHistory) = Args
    /\ DOMAIN branches = {"x"}

(* C7: when an accepted record is the first to name branch x, with origin   *)
(* k, branches[x] becomes the first k records of history (all of them when  *)
(* k exceeds its length, none when k is below 1) followed by the record;    *)
(* history is unchanged.                                                    *)
C7_BranchSeeding ==
    [][(ThinkingAccepted /\ NamesBranch(Args)
          /\ Args.branchId.str \notin DOMAIN branches) =>
          LET k == Args.branchFromWhimsy.num
              n == IF k > Len(whimsyHistory) THEN Len(whimsyHistory)
                   ELSE IF k < 1 THEN 0 ELSE k
          IN  /\ Args.branchId.str \in DOMAIN branches'
              /\ branches'[Args.branchId.str] = Append(SubSeq(whimsyHistory, 1, n), Args)
              /\ whimsyHistory' = whimsyHistory]_vars

(* C7 for the origins the input schema declares, k >= 1: the seeding is as  *)
(* stated.                                                                  *)
C7_BranchSeedingInRange ==
    [][(ThinkingAccepted /\ NamesBranch(Args)
          /\ Args.branchId.str \notin DOMAIN branches
          /\ Args.branchFromWhimsy.num >= 1) =>
          LET k == Args.branchFromWhimsy.num
              n == IF k > Len(whimsyHistory) THEN Len(whimsyHistory) ELSE k
          IN  /\ Args.branchId.str \in DOMAIN branches'
              /\ branches'[Args.branchId.str] = Append(SubSeq(whimsyHistory, 1, n), Args)
              /\ whimsyHistory' = whimsyHistory]_vars

(* C8: a branch that exists is never removed or reseeded: a step leaves it  *)
(* as it is, or an accepted record naming it appends exactly that record,   *)
(* whatever its origin and however history has grown.                       *)
C8_BranchCreatedOnce ==
    [][\A id \in DOMAIN branches :
          /\ id \in DOMAIN branches'
          /\ IF ThinkingAccepted /\ NamesBranch(Args) /\ Args.branchId.str = id
             THEN branches'[id] = Append(branches[id], Args)
             ELSE branches'[id] = branches[id]]_vars

\* branch x was seeded from an empty history; history has two records now
\* and a second record, of another origin, was appended to x
C8_Witness ==
    /\ ThinkingReplied /\ ~IsErrorTrue(response)
    /\ HasBothBranchKeys(Args)
    /\ Args.branchId = Str("x") /\ Args.branchFromWhimsy = Num(-1)
    /\ Len(whimsyHistory) = 2
    /\ "x" \in DOMAIN branches
    /\ Len(branches["x"]) = 2
    /\ branches["x"][1] = Branching(Thought(<<"a">>, 1, 1), "x", 1)
    /\ branches["x"][2] = Args

(* C9: history changes in one way only: a thinking call that is accepted    *)
(* and does not name a branch appends exactly its record; every other step, *)
(* a call answered with an error included, leaves history as it was.        *)
C9_HistoryGrowsOnlyByAcceptedCalls ==
    [][IF ThinkingAccepted /\ ~NamesBranch(Args)
       THEN whimsyHistory' = Append(whimsyHistory, Args)
       ELSE whimsyHistory' = whimsyHistory]_vars

----------------------------------------------------------------------------
(* Vocabulary of the settings properties *)

SetLevelStep == ToolStep("set_whimsy_level") /\ "arguments" \in DOMAIN request

CurrentStyle(settings) == Get(settings, "style")

(* C10 as stated: after set_whimsy_level the level is the supplied level    *)
(* and the style is the supplied style, none when no style was supplied.    *)
C10_OverwritesLevelAndStyle ==
    [][SetLevelStep =>
          /\ whimsySettings'.level = Get(Args, "level")
          /\ CurrentStyle(whimsySettings') = Get(Args, "style")]_vars

(* C10 as amended: after set_whimsy_level the level is the supplied level;  *)
(* the style is the supplied style when a non-empty one was supplied, and   *)
(* the style in force before the call otherwise.                            *)
C10_OverwritesLevelKeepsStyle ==
    [][SetLevelStep =>
          /\ whimsySettings'.level = Get(Args, "level")
          /\ CurrentStyle(whimsySettings') =
                 IF Truthy(Get(Args, "style")) THEN Get(Args, "style")
                 ELSE CurrentStyle(whimsySettings)]_vars

\* a call that supplied level 2 and no style was answered, and the style
\* set by an earlier call is still in force
C10_Witness ==
    /\ ToolReplied("set_whimsy_level") /\ "arguments" \in DOMAIN request
    /\ ~IsErrorTrue(response)
    /\ DOMAIN Args = {"level"} /\ Args.level = Num(2)
    /\ whimsySettings = [level |-> Num(2), style |-> Str("playful")]

(* C11: set_whimsy_level is idempotent: handling the same request again,    *)
(* from the session the first call left, gives the same settings, history   *)
(* and branches and returns the same response.                              *)
C11_SetLevelIdempotent ==
    [][ToolStep("set_whimsy_level") =>
          CallTool(request, whimsySettings', whimsyHistory', branches', strategiesFile', 0)
              = [settings |-> whimsySettings', history |-> whimsyHistory',
                 branches |-> branches', response |-> response']]_vars

\* a call that changed the level and kept an earlier style was answered, in
\* a session that holds a record and a branch
C11_Witness ==
    /\ ToolReplied("set_whimsy_level") /\ "arguments" \in DOMAIN request
    /\ DOMAIN Args = {"level"} /\ Args.level = Num(0)
    /\ whimsySettings = [level |-> Num(0), style |-> Str("wonder")]
    /\ whimsyHistory # <<>> /\ DOMAIN branches # {}
    /\ ~IsErrorTrue(response)

----------------------------------------------------------------------------
(* Vocabulary of the guidance properties *)

GuidanceStep == ToolStep("get_whimsy_guidance") /\ "arguments" \in DOMAIN request

GuidanceReplied == ToolReplied("get_whimsy_guidance") /\ "arguments" \in DOMAIN request

\* the first lines of a guidance text: the template it was built from
TemplateOf(env) == SubSeq(TextOf(env), 1, Len(SubtleTemplate))

\* min(level, SUBTLE) when seriousness is high, the level itself otherwise
CappedLevel(level, seriousness) ==
    IF seriousness = Str("high") /\ level > 1 THEN 1 ELSE level

(* C12: when the level in force is not OFF, get_whimsy_guidance answers     *)
(* with the template of the effective level, min(level, SUBTLE) when        *)
(* seriousness is high and the level itself otherwise: the SUBTLE template  *)
(* for effective level 1, the OVERT template above it.                      *)
C12_GuidanceCapping ==
    [][(GuidanceStep /\ IsNum(whimsySettings.level) /\ whimsySettings.level.num >= 1) =>
          /\ ~IsErrorTrue(response')
          /\ TemplateOf(response') =
                 IF CappedLevel(whimsySettings.level.num, Get(Args, "seriousness")) = 1
                 THEN SubtleTemplate ELSE OvertTemplate]_vars

\* level OVERT, seriousness high: the SUBTLE template and the note that
\* whimsy was reduced
C12_Witness ==
    /\ GuidanceReplied
    /\ whimsySettings.level = Num(2)
    /\ Get(Args, "seriousness") = Str("high")
    /\ TemplateOf(response) = SubtleTemplate
    /\ Last(TextOf(response)) = ReducedNote

----------------------------------------------------------------------------
(* C14: a call whose name is not a registered tool is answered with an      *)
(* envelope that has isError: true and a message containing the requested   *)
(* name; nothing is thrown and no handler runs: the session is untouched.   *)
RegisteredNames == {ToolList[i].name : i \in 1..Len(ToolList)}

C14_UnknownTool ==
    [][(HandlerStep /\ request.method = "tools/call"
          /\ request.name \notin RegisteredNames) =>
          /\ "fault" \notin DOMAIN response'
          /\ HasTextContent(response') /\ IsErrorTrue(response')
          /\ \E i \in 1..Len(TextOf(response')) : TextOf(response')[i] = Lit(request.name)
          /\ UNCHANGED <<whimsySettings, whimsyHistory, branches, strategiesFile>>]_vars

\* a name that differs from a registered one by case only, sent with a
\* valid thought: answered as unknown, nothing stored
C14_Witness ==
    /\ CallReplied /\ request.name = "Whimsical_Thinking"
    /\ "arguments" \in DOMAIN request
    /\ IsErrorTrue(response)
    /\ TextOf(response) = <<Lit("Unknown tool: "), Lit("Whimsical_Thinking")>>
    /\ whimsyHistory = <<>>

----------------------------------------------------------------------------
(* C15: a call to a registered tool that omits a key its schema marks as    *)
(* required is answered with isError: true and changes no session state.    *)
Required(name) == (CHOOSE t \in {ToolList[i] : i \in 1..Len(ToolList)} : t.name = name).required

OmitsRequired(req) ==
    IF "arguments" \in DOMAIN req
    THEN \E key \in Required(req.name) : key \notin DOMAIN req.arguments
    ELSE Required(req.name) # {}

C15_MissingFieldFails ==
    [][(HandlerStep /\ request.method = "tools/call"
          /\ request.name \in RegisteredNames /\ OmitsRequired(request)) =>
          /\ IsErrorTrue(response')
          /\ UNCHANGED <<whimsySettings, whimsyHistory, branches>>]_vars

----------------------------------------------------------------------------
(* C16: in every reachable state the level is 0, 1 or 2 and the style is    *)
(* unset or one of the four declared styles; a set_whimsy_level call with   *)
(* a level or style outside these sets is answered with isError: true and   *)
(* leaves the settings unchanged.                                           *)
DeclaredLevels == ToolList[1].enum.level

DeclaredStyles == ToolList[1].enum.style

\* (a level left undefined by a call that supplied none is the matter of C15)
SettingsInRange ==
    /\ IsUndefined(whimsySettings.level) \/ whimsySettings.level \in DeclaredLevels
    /\ "style" \in DOMAIN whimsySettings => whimsySettings.style \in DeclaredStyles

SuppliesOutOfRange(a) ==
    \/ "level" \in DOMAIN a /\ a.level \notin DeclaredLevels
    \/ "style" \in DOMAIN a /\ a.style \notin DeclaredStyles

C16_SettingsStayInRange ==
    /\ []SettingsInRange
    /\ [][(SetLevelStep /\ SuppliesOutOfRange(Args)) =>
             IsErrorTrue(response') /\ whimsySettings' = whimsySettings]_vars

----------------------------------------------------------------------------
(* C17: a thinking call whose delightLevel is outside 1..10, or whose       *)
(* tonalShift or connectionStyle is outside its declared set, is answered   *)
(* with isError: true and is recorded neither in history nor in a branch.   *)
DeclaredDelight == ToolList[4].minimum.delightLevel .. ToolList[4].maximum.delightLevel

OutsideDeclared(a) ==
    \/ "delightLevel" \in DOMAIN a
          /\ ~(IsNum(a.delightLevel) /\ a.delightLevel.num \in DeclaredDelight)
    \/ "tonalShift" \in DOMAIN a /\ a.tonalShift \notin ToolList[4].enum.tonalShift
    \/ "connectionStyle" \in DOMAIN a
          /\ a.connectionStyle \notin ToolList[4].enum.connectionStyle

C17_OutOfRangeThoughtRejected ==
    [][(ToolStep("whimsical_thinking") /\ "arguments" \in DOMAIN request
          /\ OutsideDeclared(Args)) =>
          /\ IsErrorTrue(response')
          /\ whimsyHistory' = whimsyHistory /\ branches' = branches]_vars

----------------------------------------------------------------------------
(* C18: in every reachable state every record of history and of every       *)
(* branch has non-blank content, whimsyNumber >= 1, totalWhimsies >= 1 and  *)
(* whimsyNumber <= totalWhimsies unless its needsMoreWhimsies is true.      *)
ValidRecord(r) ==
    /\ RequiredValid(r)
    /\ Exceeds(r) => AllowsExceeding(r)

C18_StoredRecordsValid ==
    /\ \A i \in 1..Len(whimsyHistory) : ValidRecord(whimsyHistory[i])
    /\ \A id \in DOMAIN branches :
           \A i \in 1..Len(branches[id]) : ValidRecord(branches[id][i])

----------------------------------------------------------------------------
(* Vocabulary of the strategy picker's properties *)

ObliquePending == PendingCall("oblique_strategy")

ObliqueReplied == ToolReplied("oblique_strategy")

\* the non-blank lines of a text, trimmed: a stretch i..j without a line
\* feed that starts and ends on a non-blank character and has only blanks
\* between it and the line feeds (or text ends) around it
ListLines(content) ==
    { SubSeq(content, i, j) : <<i, j>> \in
        { p \in (1..Len(content)) \X (1..Len(content)) :
            /\ p[1] <= p[2]
            /\ \A m \in p[1]..p[2] : content[m] # "\n"
            /\ content[p[1]] \notin Whitespace /\ content[p[2]] \notin Whitespace
            /\ \A k \in 1..(p[1] - 1) :
                   (\A m \in k..(p[1] - 1) : content[m] # "\n") => content[k] \in Whitespace
            /\ \A k \in (p[2] + 1)..Len(content) :
                   (\A m \in (p[2] + 1)..k : content[m] # "\n") => content[k] \in Whitespace } }

\* the file can be read and holds at least one non-blank line
HasStrategies(file) == "content" \in DOMAIN file /\ ListLines(file.content) # {}

\* the file on which the eventual return of every line is checked
SampledFiles == { [content |-> ThreeLines] }

(* C19: when the file holds at least one non-blank line, an                 *)
(* oblique_strategy call returns one of its trimmed non-blank lines and     *)
(* nothing else; every such line can be drawn; and while the file stays the *)
(* same and calls keep coming, fair draws return each line again and again. *)
C19_StrategyPicker ==
    /\ [](ObliqueReplied /\ HasStrategies(strategiesFile) =>
             /\ ~IsErrorTrue(response)
             /\ \E line \in ListLines(strategiesFile.content) :
                    response = Envelope(StrategyText(line)))
    /\ [](ObliquePending /\ HasStrategies(strategiesFile) =>
             \A line \in ListLines(strategiesFile.content) :
                 \E u \in 0..(RandomGrid - 1) :
                     getObliqueStrategy(strategiesFile, u) = Return(Envelope(StrategyText(line))))
    /\ \A file \in SampledFiles : \A line \in ListLines(file.content) :
           (<>[](strategiesFile = file) /\ []<>ObliquePending) =>
               []<>(ObliqueReplied /\ response = Envelope(StrategyText(line)))

\* the second line of a three-line file, trimmed of its blank and its CR,
\* was returned
C19_Witness ==
    /\ ObliqueReplied
    /\ strategiesFile = [content |-> ThreeLines]
    /\ ListLines(ThreeLines) = {<<"a">>, <<"b">>, <<"c">>}
    /\ response = Envelope(StrategyText(<<"a">>))
----------------------------------------------------------------------------
\* readFileSync threw: the strategy list could not be read
Unreadable(file) == "err" \in DOMAIN file

\* the reply of the handler's catch block to a read that failed with `code`
ReadFailureEnvelope(code) ==
    ErrorEnvelope(<<Lit("Couldn't retrieve an Oblique Strategy: "), Lit(code)>>)

(* C20 as stated: whenever the strategy list cannot be read, the call of    *)
(* oblique_strategy is answered, without a fault, by an envelope whose      *)
(* isError is true and that carries a message.                              *)
C20_UnreadableIsError ==
    (ObliqueReplied /\ Unreadable(strategiesFile)) =>
        /\ "fault" \notin DOMAIN response
        /\ HasTextContent(response) /\ TextOf(response) # <<>>
        /\ IsErrorTrue(response)

(* C20 as the code has it: a call of oblique_strategy that cannot read the  *)
(* list never faults and is always answered by an envelope with a message.  *)
(* When the file does not exist the envelope is the fixed "file not found"  *)
(* notice and carries no isError; for every other read failure it has       *)
(* isError true and the handler's prefix followed by the failure. The       *)
(* session is left as it was.                                               *)
C20_UnreadableIsAnswered ==
    /\ [](ObliqueReplied /\ Unreadable(strategiesFile) =>
             /\ "fault" \notin DOMAIN response
             /\ HasTextContent(response) /\ TextOf(response) # <<>>
             /\ IF strategiesFile.err = "ENOENT"
                THEN IsErrorAbsent(response) /\ response = Envelope(FileNotFoundText)
                ELSE IsErrorTrue(response)
                     /\ response = ReadFailureEnvelope(strategiesFile.err))
    /\ [][(ToolStep("oblique_strategy") /\ Unreadable(strategiesFile)) =>
             UNCHANGED <<whimsySettings, whimsyHistory, branches, strategiesFile>>]_vars

\* both failures were answered: here the missing file, by the notice
C20_Witness ==
    /\ ObliqueReplied
    /\ strategiesFile = [err |-> "ENOENT"]
    /\ response = Envelope(FileNotFoundText)
    /\ IsErrorAbsent(response)
----------------------------------------------------------------------------
\* the file was read and no line of it has a non-blank character
ReadButEmpty(file) == "content" \in DOMAIN file /\ ListLines(file.content) = {}

\* the reply of the handler's catch block to the Error thrown for an empty list
EmptyStrategySetEnvelope == ReadFailureEnvelope("No strategies found in oblique-strategies.txt")

\* env carries a strategy: its text has the frame of StrategyText
CarriesStrategy(env) ==
    /\ HasTextContent(env)
    /\ Len(TextOf(env)) = Len(StrategyText(<<>>))
    /\ TextOf(env)[1] = StrategyText(<<>>)[1]

(* C21: when the strategy file is read but every line of it is blank (or    *)
(* the file is empty), the call of oblique_strategy is answered by an       *)
(* envelope with isError true whose message says that no strategies were    *)
(* found; no strategy text is returned, whatever the random draw.           *)
C21_EmptyStrategySet ==
    /\ (ObliqueReplied /\ ReadButEmpty(strategiesFile)) =>
           /\ IsErrorTrue(response)
           /\ response = EmptyStrategySetEnvelope
           /\ ~CarriesStrategy(response)
    /\ (ObliquePending /\ ReadButEmpty(strategiesFile)) =>
           \A u \in 0..(RandomGrid - 1) :
               getObliqueStrategy(strategiesFile, u).tag = "throw"

\* a file of a blank line and an empty one was answered with the error
C21_Witness ==
    /\ ObliqueReplied
    /\ strategiesFile = [content |-> <<" ", "\n">>]
    /\ ReadButEmpty(strategiesFile)
    /\ response = EmptyStrategySetEnvelope
----------------------------------------------------------------------------
\* what a call of oblique_strategy can answer when the file system holds
\* `file`, told from the file alone
OutcomesOf(file) ==
    IF Unreadable(file)
    THEN IF file.err = "ENOENT" THEN {Envelope(FileNotFoundText)}
         ELSE {ReadFailureEnvelope(file.err)}
    ELSE IF ReadButEmpty(file) THEN {EmptyStrategySetEnvelope}
    ELSE {Envelope(StrategyText(line)) : line \in ListLines(file.content)}

\* what the pending call can answer, over every draw
PossibleReplies ==
    {CallTool(request, whimsySettings, whimsyHistory, branches, strategiesFile, u).response :
        u \in 0..(RandomGrid - 1)}

\* the file the server found when it started
StartupFile == [err |-> "ENOENT"]

(* C22: the answer of an oblique_strategy call is a function of what the    *)
(* strategy file holds when the call is handled, and of nothing else: in    *)
(* every reachable state, whatever the file held before and whatever        *)
(* earlier calls read, the answers the pending call can give are exactly    *)
(* those of the present file, and the answer given is one of them.          *)
C22_ReadFresh ==
    /\ ObliquePending => PossibleReplies = OutcomesOf(strategiesFile)
    /\ ObliqueReplied => response \in OutcomesOf(strategiesFile)

\* the file was created after the start and the call answered from it
C22_Witness ==
    /\ ObliqueReplied
    /\ strategiesFile = [content |-> ThreeLines]
    /\ strategiesFile # StartupFile
    /\ response = Envelope(StrategyText(<<"c">>))
    /\ response \notin OutcomesOf(StartupFile)
----------------------------------------------------------------------------
\* the step in which the thinking handler runs
ThinkingStep == ToolStep("whimsical_thinking")

\* the step stores a record on the main line
HistoryGrows == whimsyHistory' # whimsyHistory

\* the step stores a record on branch id, new or existing
BranchGrows(id) ==
    id \in DOMAIN branches' /\ (id \in DOMAIN branches => branches'[id] # branches[id])

(* C23: the main line and the branches grow independently. A step that      *)
(* appends a record to history leaves every branch, and the set of branch   *)
(* ids, as they were; a step that appends a record to a branch, or seeds a  *)
(* new one, leaves history and every other branch as they were; and what a  *)
(* branch held before the step is still its prefix after it.                *)
C23_BranchesIndependent ==
    [][/\ HistoryGrows =>
             /\ ThinkingStep
             /\ whimsyHistory' = Append(whimsyHistory, Args)
             /\ branches' = branches
       /\ \A id \in DOMAIN branches' :
             BranchGrows(id) =>
                 /\ ThinkingStep
                 /\ whimsyHistory' = whimsyHistory
                 /\ Last(branches'[id]) = Args
                 /\ id \in DOMAIN branches => branches'[id] = Append(branches[id], Args)
                 /\ \A other \in DOMAIN branches' \ {id} :
                        other \in DOMAIN branches /\ branches'[other] = branches[other]]_vars

\* branch x was seeded from the first record and got one of its own; then
\* the main line got its second record and x is as it was
C23_Witness ==
    /\ ThinkingReplied /\ ~IsErrorTrue(response)
    /\ ~HasBothBranchKeys(Args)
    /\ Len(whimsyHistory) = 2 /\ Last(whimsyHistory) = Args
    /\ "x" \in DOMAIN branches
    /\ Len(branches["x"]) = 2
    /\ branches["x"][1] = whimsyHistory[1]
    /\ HasBothBranchKeys(branches["x"][2])
----------------------------------------------------------------------------
(* Vocabulary of the rendering properties *)

\* the place of each section in the rendered text
Rank(sec) ==
    CASE sec = "header" -> 1 [] sec = "progress" -> 2 [] sec = "content" -> 3
      [] sec = "insight" -> 4 [] sec = "paths" -> 5 [] sec = "feeling" -> 6
      [] sec = "spark" -> 7 [] sec = "connection" -> 8 [] sec = "footer" -> 9

HasSection(text, sec) == \E i \in 1..Len(text) : text[i].sec = sec

SectionOf(text, sec) == text[CHOOSE i \in 1..Len(text) : text[i].sec = sec]

\* no section twice, and each one after those of lower rank
InFixedOrder(text) ==
    \A i, j \in 1..Len(text) : i < j => Rank(text[i].sec) < Rank(text[j].sec)

\* the tangent list of the payload has at least one element
HasTangents(a) ==
    /\ "adjacentPaths" \in DOMAIN a
    /\ \/ IsArr(a.adjacentPaths) /\ Len(a.adjacentPaths.arr) > 0
       \/ IsStr(a.adjacentPaths) /\ Len(a.adjacentPaths.str) > 0

\* the items of the tangent section are the payload's, numbered from 1
NumberedFromOne(text, a) ==
    LET items == SectionOf(text, "paths").items
    IN  /\ IsArr(a.adjacentPaths)
        /\ Len(items) = Len(a.adjacentPaths.arr)
        /\ \A i \in 1..Len(items) :
               items[i].index = i /\ items[i].path = a.adjacentPaths.arr[i]

\* the thinking call at hand passed validation: its record was stored
RenderedCall == ThinkingReplied /\ RequiredValid(Args) /\ Stored(Args)

(* C24 as stated: the rendering of a stored record never fails; its         *)
(* sections come in the fixed order header, progress, content, insight,     *)
(* tangent list, feeling, footer; header, progress, content and footer are  *)
(* always there; the insight and the feeling are there exactly when their   *)
(* field is present in the payload, the tangent list exactly when the field *)
(* is present and non-empty, and its items are numbered from 1.             *)
C24_RenderingInOrder ==
    RenderedCall =>
        /\ ~IsErrorTrue(response)
        /\ InFixedOrder(TextOf(response))
        /\ \A sec \in {"header", "progress", "content", "footer"} :
               HasSection(TextOf(response), sec)
        /\ HasSection(TextOf(response), "insight") <=> "unexpectedInsight" \in DOMAIN Args
        /\ HasSection(TextOf(response), "feeling") <=> "emotionalResonance" \in DOMAIN Args
        /\ HasSection(TextOf(response), "paths") <=> HasTangents(Args)
        /\ HasTangents(Args) => NumberedFromOne(TextOf(response), Args)

(* C24, the rendering alone: a stored record is always answered with a      *)
(* rendered text and never with an error.                                   *)
C24_RenderingNeverFails ==
    RenderedCall => ~IsErrorTrue(response)

(* C24, the part the code keeps: when the rendering succeeds, the sections  *)
(* come in the fixed order, the four fixed ones are there, an optional      *)
(* section is there exactly when its field is non-empty, and the tangents   *)
(* are numbered from 1.                                                     *)
C24_RenderedSections ==
    (RenderedCall /\ ~IsErrorTrue(response)) =>
        /\ InFixedOrder(TextOf(response))
        /\ \A sec \in {"header", "progress", "content", "footer"} :
               HasSection(TextOf(response), sec)
        /\ HasSection(TextOf(response), "insight") <=> Truthy(Get(Args, "unexpectedInsight"))
        /\ HasSection(TextOf(response), "feeling") <=> Truthy(Get(Args, "emotionalResonance"))
        /\ HasSection(TextOf(response), "paths") <=> HasTangents(Args)
        /\ HasTangents(Args) => NumberedFromOne(TextOf(response), Args)

\* a record with insight, two tangents and a feeling was rendered in full
C24_RenderedWitness ==
    /\ RenderedCall /\ ~IsErrorTrue(response)
    /\ \A sec \in {"insight", "paths", "feeling"} : HasSection(TextOf(response), sec)
    /\ Len(SectionOf(TextOf(response), "paths").items) = 2
----------------------------------------------------------------------------
\* the payload is one validateWhimsyData refuses: blank content, a number
\* or a total below 1, or a number beyond the total without the flag
Refused(a) ==
    \/ BlankContent(a)
    \/ HasNumbers(a) /\ (a.whimsyNumber.num < 1 \/ a.totalWhimsies.num < 1)
    \/ Exceeds(a) /\ ~AllowsExceeding(a)

(* C25: a thinking call whose payload has blank content, a whimsyNumber or  *)
(* a totalWhimsies below 1, or a whimsyNumber beyond totalWhimsies without  *)
(* needsMoreWhimsies, is answered with an error and changes nothing:        *)
(* settings, history, every branch and the set of branch ids are after the  *)
(* call what they were before, also when the payload names a new branch.    *)
C25_RejectedCallChangesNothing ==
    [][(ThinkingStep /\ "arguments" \in DOMAIN request /\ Refused(Args)) =>
          /\ IsErrorTrue(response')
          /\ whimsySettings' = whimsySettings
          /\ whimsyHistory' = whimsyHistory
          /\ DOMAIN branches' = DOMAIN branches
          /\ branches' = branches]_vars

\* an overflowing record naming the new branch y was refused; no y exists
C25_Witness ==
    /\ ThinkingReplied /\ IsErrorTrue(response)
    /\ Args = Branching(Thought(<<"a">>, 2, 1), "y", 2)
    /\ Refused(Args)
    /\ whimsySettings = [level |-> Num(2), style |-> Str("playful")]
    /\ whimsyHistory # <<>>
    /\ "x" \in DOMAIN branches
    /\ "y" \notin DOMAIN branches
----------------------------------------------------------------------------
\* the step in which the ListTools handler runs
ListToolsStep == HandlerStep /\ request.method = "tools/list"

\* the step in which a call of an unregistered name is handled
UnknownToolStep ==
    HandlerStep /\ request.method = "tools/call" /\ request.name \notin RegisteredNames

SessionUnchanged == UNCHANGED <<whimsySettings, whimsyHistory, branches>>

(* C26: get_whimsy_guidance, oblique_strategy, the tool listing and calls   *)
(* of unknown names leave settings, history and branches as they were;      *)
(* set_whimsy_level leaves history and branches as they were and writes     *)
(* nothing but level and style; whimsical_thinking leaves the settings as   *)
(* they were.                                                               *)
C26_FrameConditions ==
    [][/\ GuidanceStep => SessionUnchanged
       /\ ToolStep("oblique_strategy") => SessionUnchanged
       /\ ListToolsStep => SessionUnchanged
       /\ UnknownToolStep => SessionUnchanged
       /\ ToolStep("set_whimsy_level") =>
              /\ UNCHANGED <<whimsyHistory, branches>>
              /\ DOMAIN whimsySettings' \subseteq {"level", "style"}
       /\ ThinkingStep => UNCHANGED whimsySettings]_vars

\* guidance was given in a session with changed settings, a record on the
\* main line and a branch, all of which it left in place
C26_Witness ==
    /\ GuidanceReplied /\ ~IsErrorTrue(response)
    /\ whimsySettings = [level |-> Num(2), style |-> Str("wonder")]
    /\ Len(whimsyHistory) = 2
    /\ "x" \in DOMAIN branches

====
